---- MODULE Spec2Model ----
(***************************************************************************)
(* Model of dashboard_EAS_503_project.py: one run of the script, top to    *)
(* bottom.  The script opens a SQLite connection, fetches five row sets,   *)
(* reads the sidebar selections, filters the joined row set, computes the  *)
(* metrics and the aggregates, and closes the connection.                  *)
(*                                                                         *)
(* Cells.  SQLite columns are dynamically typed, so a cell is a number, a  *)
(* NULL (pandas: NaN/None, the missing marker) or text.  A column with     *)
(* numeric affinity stores well-formed numeric text as a number, so the    *)
(* text that reaches pandas is text that does not parse as a number.       *)
(* Columns the script never computes with (Education, Join_Date,           *)
(* Annual_Bonus, Bonus_Percentage) are left out of the rows.               *)
(*                                                                         *)
(* Chart calls (px.*, st.plotly_chart) assign no program state and are not *)
(* modelled, except the pie chart of line 204, whose argument list reads   *)
(* the name sns, which the script never imports or assigns.                *)
(***************************************************************************)
EXTENDS Integers, Sequences, FiniteSets, TLC

VARIABLES
    pc,                     \* position of the script
    conn,                   \* "open" | "closed"  (line 8, line 297)
    db,                     \* the content of employee_database_new.db
    notices,                \* queries for which st.error was shown (line 15)
    error,                  \* where the run raised, "none" otherwise
    employee_data, salary_data, performance_data, department_data,
    merged_data, empl_dept_data,
    selected_gender, selected_city, selected_country,
    selected_salary_range, selected_age_range, selected_tenure_range,
    filtered_data,
    total_employees,        \* the "Total Employees" metric (line 89)
    avg_salary_dept, top_paid, avg_salary_dept_tenure, avg_perf_age_group,
    displayed               \* the frame handed to st.dataframe (line 294)

frames == <<employee_data, salary_data, performance_data, department_data,
            merged_data, empl_dept_data>>
selections == <<selected_gender, selected_city, selected_country,
                selected_salary_range, selected_age_range, selected_tenure_range>>
aggregates == <<total_employees, avg_salary_dept, top_paid,
                avg_salary_dept_tenure, avg_perf_age_group, displayed>>
vars == <<pc, conn, db, notices, error, frames, selections, filtered_data, aggregates>>

-----------------------------------------------------------------------------
(* Bounds of the model *)

MaxEmp == 2            \* employees in a generated database
MaxMissingTables == 1  \* tables missing from a broken database
MaxGroupRows == 2      \* rows of a row set handed to the grouped means
MaxBinRows == 2        \* rows of a row set handed to the age binning
MaxTopRows == 11       \* rows of a row set handed to the Top-10

-----------------------------------------------------------------------------
(* Cells *)

Num(n) == [t |-> "num", v |-> n]
NaN == [t |-> "nan", v |-> 0]
Text == [t |-> "text", v |-> 0]

IsNum(c) == c.t = "num"
IsText(c) == c.t = "text"

(* pd.DataFrame(): no columns, no rows *)
EmptyFrame == [cols |-> FALSE, rows |-> <<>>]
Frame(rows) == [cols |-> TRUE, rows |-> rows]

Range(s) == {s[i] : i \in 1..Len(s)}

-----------------------------------------------------------------------------
(* The database *)

TableNames == {"Employee", "Location", "Salary", "Performance",
               "Employee_Department", "Department"}

LocationTable == << [Location_ID |-> 1, City |-> "A", Country |-> "X"],
                    [Location_ID |-> 2, City |-> "B", Country |-> "Y"] >>

DepartmentTable == << [Department_ID |-> 1, Department_Name |-> "D1"],
                      [Department_ID |-> 2, Department_Name |-> "D2"] >>

(* an id no Location / Department row carries *)
DanglingId == Len(LocationTable) + Len(DepartmentTable) + 5

(* Employee profiles with every cell numeric and every row present *)
ValueProfiles ==
    << [Gender |-> "F", Location_ID |-> 1, Department_ID |-> 1, Age |-> 30,
        Tenure |-> 1, Salary |-> 1, Performance_Score |-> 3, Working_Hours |-> 8],
       [Gender |-> "F", Location_ID |-> 1, Department_ID |-> 1, Age |-> 31,
        Tenure |-> 2, Salary |-> 2, Performance_Score |-> 4, Working_Hours |-> 9],
       [Gender |-> "M", Location_ID |-> 2, Department_ID |-> 2, Age |-> 30,
        Tenure |-> 1, Salary |-> 1, Performance_Score |-> 3, Working_Hours |-> 8],
       [Gender |-> "M", Location_ID |-> 2, Department_ID |-> 2, Age |-> 31,
        Tenure |-> 2, Salary |-> 2, Performance_Score |-> 4, Working_Hours |-> 9] >>

(* What can be wrong with one employee's rows *)
Defects ==
    << "none", "noLocation", "noSalary", "noPerformance", "noEmployeeDepartment",
       "noDepartment", "SalaryNull", "SalaryText", "AgeNull", "AgeText",
       "TenureNull", "TenureText", "ScoreNull", "ScoreText", "HoursNull",
       "HoursText" >>

CellOf(n, defect, null, text) ==
    IF defect = null THEN NaN ELSE IF defect = text THEN Text ELSE Num(n)

EmployeeRow(i, p, d) ==
    [Employee_ID |-> i, Name |-> i, Gender |-> p.Gender,
     Age |-> CellOf(p.Age, d, "AgeNull", "AgeText"),
     Tenure |-> CellOf(p.Tenure, d, "TenureNull", "TenureText"),
     Location_ID |-> IF d = "noLocation" THEN DanglingId ELSE p.Location_ID]

SalaryRow(i, p, d) ==
    [Employee_ID |-> i, Salary |-> CellOf(p.Salary, d, "SalaryNull", "SalaryText")]

PerformanceRow(i, p, d) ==
    [Employee_ID |-> i,
     Performance_Score |-> CellOf(p.Performance_Score, d, "ScoreNull", "ScoreText"),
     Working_Hours |-> CellOf(p.Working_Hours, d, "HoursNull", "HoursText")]

EmployeeDepartmentRow(i, p, d) ==
    [Employee_ID |-> i,
     Department_ID |-> IF d = "noDepartment" THEN DanglingId ELSE p.Department_ID]

(* rows <<f(1), ..., f(n)>> restricted to the indices in keep *)
RECURSIVE SeqOver(_, _, _)
SeqOver(n, keep, f) ==
    IF n = 0 THEN <<>>
    ELSE IF n \in keep THEN Append(SeqOver(n - 1, keep, f), f[n])
    ELSE SeqOver(n - 1, keep, f)

(* The database whose employee i has profile ps[i] and defect ds[i] *)
MakeDB(ps, ds, missing) ==
    LET n == Len(ps)
        all == 1..n
    IN [Employee |-> SeqOver(n, all, [i \in all |-> EmployeeRow(i, ps[i], ds[i])]),
        Location |-> LocationTable,
        Salary |-> SeqOver(n, {i \in all : ds[i] # "noSalary"},
                           [i \in all |-> SalaryRow(i, ps[i], ds[i])]),
        Performance |-> SeqOver(n, {i \in all : ds[i] # "noPerformance"},
                                [i \in all |-> PerformanceRow(i, ps[i], ds[i])]),
        Employee_Department |->
            SeqOver(n, {i \in all : ds[i] # "noEmployeeDepartment"},
                    [i \in all |-> EmployeeDepartmentRow(i, ps[i], ds[i])]),
        Department |-> DepartmentTable,
        missing |-> missing]

(* index sequences k[1] <= ... <= k[n] over 1..m: one per multiset *)
Sorted(n, m) ==
    {k \in [1..n -> 1..m] : \A i \in 1..n : \A j \in 1..n : i < j => k[i] <= k[j]}

(* healthy databases: up to MaxEmp employees of any value profiles *)
ValueDBs ==
    UNION { { MakeDB([i \in 1..n |-> ValueProfiles[k[i]]],
                     [i \in 1..n |-> "none"], {})
              : k \in Sorted(n, Len(ValueProfiles)) }
            : n \in 0..MaxEmp }

(* databases whose employees share one profile and carry one defect each *)
DefectDBs ==
    UNION { { MakeDB([i \in 1..n |-> ValueProfiles[1]],
                     [i \in 1..n |-> Defects[k[i]]], {})
              : k \in Sorted(n, Len(Defects)) }
            : n \in 1..MaxEmp }

(* databases with tables missing (malformed schema, missing table) *)
BrokenDBs ==
    { MakeDB(<<ValueProfiles[1], ValueProfiles[3]>>, <<"none", "none">>, m)
      : m \in {s \in SUBSET TableNames :
                 Cardinality(s) >= 1 /\ Cardinality(s) <= MaxMissingTables} }

DBs == ValueDBs \cup DefectDBs \cup BrokenDBs

-----------------------------------------------------------------------------
(* The queries (SQL inner joins, in the row order of the leftmost table) *)

(* left JOIN right ON left.lk = right.rk: one row per matching pair *)
Join(left, right, lk, rk) ==
    LET matches(l) == SelectSeq(right, LAMBDA r : r[rk] = l[lk])
        merged(l) == [j \in 1..Len(matches(l)) |-> l @@ matches(l)[j]]
        acc[i \in 0..Len(left)] ==
            IF i = 0 THEN <<>> ELSE acc[i - 1] \o merged(left[i])
    IN acc[Len(left)]

(* the SELECT list *)
Project(rows, columns) ==
    [i \in 1..Len(rows) |-> [c \in columns |-> rows[i][c]]]

EmployeeColumns ==
    {"Employee_ID", "Name", "Gender", "Age", "Tenure", "City", "Country"}

MergedColumns ==
    EmployeeColumns \cup
    {"Salary", "Performance_Score", "Working_Hours", "Department_Name"}

employee_query(d) ==
    Project(Join(d.Employee, d.Location, "Location_ID", "Location_ID"),
            EmployeeColumns)

salary_query(d) == d.Salary

performance_query(d) == d.Performance

department_query(d) == d.Department

(* a variant that keeps an employee without a Performance row (LEFT JOIN) *)
employee_department_query_LeftJoin(d) ==
    LET el == Join(d.Employee, d.Location, "Location_ID", "Location_ID")
        els == Join(el, d.Salary, "Employee_ID", "Employee_ID")
        ids == {d.Performance[i].Employee_ID : i \in 1..Len(d.Performance)}
        lonely == SelectSeq(els, LAMBDA r : r.Employee_ID \notin ids)
        padded == [i \in 1..Len(lonely) |->
                     lonely[i] @@ [Performance_Score |-> NaN, Working_Hours |-> NaN]]
        elsp == Join(els, d.Performance, "Employee_ID", "Employee_ID") \o padded
        elspe == Join(elsp, d.Employee_Department, "Employee_ID", "Employee_ID")
    IN Project(Join(elspe, d.Department, "Department_ID", "Department_ID"),
               MergedColumns)

employee_department_query(d) ==
    LET el == Join(d.Employee, d.Location, "Location_ID", "Location_ID")
        els == Join(el, d.Salary, "Employee_ID", "Employee_ID")
        elsp == Join(els, d.Performance, "Employee_ID", "Employee_ID")
        elspe == Join(elsp, d.Employee_Department, "Employee_ID", "Employee_ID")
    IN Project(Join(elspe, d.Department, "Department_ID", "Department_ID"),
               MergedColumns)

(* GROUP BY d.Department_Name, COUNT(ed.Employee_ID), ORDER BY the count DESC *)
empl_dept_query(d) ==
    LET j == Join(d.Department, d.Employee_Department,
                  "Department_ID", "Department_ID")
        count(name) == Len(SelectSeq(j, LAMBDA r : r.Department_Name = name))
        groups == SelectSeq([i \in 1..Len(d.Department) |->
                               [Department_Name |-> d.Department[i].Department_Name,
                                Employee_Count |->
                                    count(d.Department[i].Department_Name)]],
                            LAMBDA g : g.Employee_Count > 0)
        Before(a, b) == a.Employee_Count > b.Employee_Count
    IN SortSeq(groups, Before)

QueryNames == {"employee_query", "salary_query", "performance_query",
               "department_query", "employee_department_query", "empl_dept_query"}

(* the tables a query names *)
QueryTables(q) ==
    CASE q = "employee_query" -> {"Employee", "Location"}
      [] q = "salary_query" -> {"Salary"}
      [] q = "performance_query" -> {"Performance"}
      [] q = "department_query" -> {"Department"}
      [] q = "employee_department_query" -> TableNames
      [] q = "empl_dept_query" -> {"Department", "Employee_Department"}

RunQuery(q, d) ==
    CASE q = "employee_query" -> employee_query(d)
      [] q = "salary_query" -> salary_query(d)
      [] q = "performance_query" -> performance_query(d)
      [] q = "department_query" -> department_query(d)
      [] q = "employee_department_query" -> employee_department_query(d)
      [] q = "empl_dept_query" -> empl_dept_query(d)

(* pd.read_sql_query raises when the query names a table the database lacks *)
QueryFails(q, d) == QueryTables(q) \cap d.missing # {}

(* fetch_data: the query's rows, or on any exception st.error and an empty frame *)
fetch_data(q, d) ==
    IF QueryFails(q, d) THEN EmptyFrame ELSE Frame(RunQuery(q, d))

fetch_notice(q, d) == IF QueryFails(q, d) THEN {q} ELSE {}

-----------------------------------------------------------------------------
(* Construction: the connection is open, nothing is fetched *)

NoRange == <<NaN, NaN>>

InitRun(d) ==
    /\ pc = "fetch_employee"
    /\ conn = "open"
    /\ db = d
    /\ notices = {}
    /\ error = "none"
    /\ employee_data = EmptyFrame
    /\ salary_data = EmptyFrame
    /\ performance_data = EmptyFrame
    /\ department_data = EmptyFrame
    /\ merged_data = EmptyFrame
    /\ empl_dept_data = EmptyFrame
    /\ selected_gender = {}
    /\ selected_city = {}
    /\ selected_country = {}
    /\ selected_salary_range = NoRange
    /\ selected_age_range = NoRange
    /\ selected_tenure_range = NoRange
    /\ filtered_data = EmptyFrame
    /\ total_employees = 0
    /\ avg_salary_dept = {}
    /\ top_paid = <<>>
    /\ avg_salary_dept_tenure = {}
    /\ avg_perf_age_group = {}
    /\ displayed = EmptyFrame

Init == \E d \in DBs : InitRun(d)

(* an uncaught exception ends the run where it is raised *)
Raise(where) ==
    /\ pc' = "failed"
    /\ error' = where

-----------------------------------------------------------------------------
(* Lines 18-50: the five fetches *)

FetchEmployee ==
    /\ pc = "fetch_employee"
    /\ employee_data' = fetch_data("employee_query", db)
    /\ notices' = notices \cup fetch_notice("employee_query", db)
    /\ pc' = "fetch_salary"
    /\ UNCHANGED <<conn, db, error, salary_data, performance_data, department_data,
                   merged_data, empl_dept_data, selections, filtered_data, aggregates>>

FetchSalary ==
    /\ pc = "fetch_salary"
    /\ salary_data' = fetch_data("salary_query", db)
    /\ notices' = notices \cup fetch_notice("salary_query", db)
    /\ pc' = "fetch_performance"
    /\ UNCHANGED <<conn, db, error, employee_data, performance_data, department_data,
                   merged_data, empl_dept_data, selections, filtered_data, aggregates>>

FetchPerformance ==
    /\ pc = "fetch_performance"
    /\ performance_data' = fetch_data("performance_query", db)
    /\ notices' = notices \cup fetch_notice("performance_query", db)
    /\ pc' = "fetch_department"
    /\ UNCHANGED <<conn, db, error, employee_data, salary_data, department_data,
                   merged_data, empl_dept_data, selections, filtered_data, aggregates>>

FetchDepartment ==
    /\ pc = "fetch_department"
    /\ department_data' = fetch_data("department_query", db)
    /\ notices' = notices \cup fetch_notice("department_query", db)
    /\ pc' = "fetch_merged"
    /\ UNCHANGED <<conn, db, error, employee_data, salary_data, performance_data,
                   merged_data, empl_dept_data, selections, filtered_data, aggregates>>

FetchMerged ==
    /\ pc = "fetch_merged"
    /\ merged_data' = fetch_data("employee_department_query", db)
    /\ notices' = notices \cup fetch_notice("employee_department_query", db)
    /\ pc' = "sidebar"
    /\ UNCHANGED <<conn, db, error, employee_data, salary_data, performance_data,
                   department_data, empl_dept_data, selections, filtered_data,
                   aggregates>>

-----------------------------------------------------------------------------
(* Lines 55-74: the sidebar widgets.  A multiselect returns any subset of   *)
(* its options, a range slider any lo <= hi between its min and max.        *)

Column(frame, c) == [i \in 1..Len(frame.rows) |-> frame.rows[i][c]]

unique(col) == Range(col)

NumValues(col) == {c.v : c \in {x \in Range(col) : IsNum(x)}}

SetMin(S) == CHOOSE x \in S : \A y \in S : x <= y
SetMax(S) == CHOOSE x \in S : \A y \in S : x >= y

(* Series.min()/max() skip NaN and raise on text; no number left gives NaN *)
MinMaxRaises(col) == \E c \in Range(col) : IsText(c)

RangesWithin(col) ==
    {<<Num(lo), Num(hi)>> : lo \in SetMin(NumValues(col))..SetMax(NumValues(col)),
                            hi \in SetMin(NumValues(col))..SetMax(NumValues(col))}

SliderRanges(col) ==
    IF NumValues(col) = {} THEN {NoRange}
    ELSE {r \in RangesWithin(col) : r[1].v <= r[2].v}

(* employee_data["Gender"], salary_data["Salary"]: KeyError on a frame *)
(* without columns; min/max of text raises; int(NaN) raises (lines 68-74) *)
SidebarRaises ==
    \/ ~employee_data.cols
    \/ ~salary_data.cols
    \/ MinMaxRaises(Column(salary_data, "Salary"))
    \/ MinMaxRaises(Column(employee_data, "Age"))
    \/ MinMaxRaises(Column(employee_data, "Tenure"))
    \/ NumValues(Column(employee_data, "Age")) = {}
    \/ NumValues(Column(employee_data, "Tenure")) = {}

(* float(NaN) is a float, and a column with one distinct number gives     *)
(* min_value = max_value: whether st.slider accepts either is decided by   *)
(* the installed Streamlit, not by the script, so the call either raises   *)
(* or returns the bounds it was given                                      *)
SliderUndefined ==
    /\ ~SidebarRaises
    /\ \/ NumValues(Column(salary_data, "Salary")) = {}
       \/ Cardinality(NumValues(Column(salary_data, "Salary"))) = 1
       \/ Cardinality(NumValues(Column(employee_data, "Age"))) = 1
       \/ Cardinality(NumValues(Column(employee_data, "Tenure"))) = 1

SidebarFilters ==
    /\ pc = "sidebar"
    /\ \/ /\ SidebarRaises \/ SliderUndefined
          /\ Raise("sidebar")
          /\ UNCHANGED selections
       \/ /\ ~SidebarRaises
          /\ selected_gender' \in SUBSET unique(Column(employee_data, "Gender"))
          /\ selected_city' \in SUBSET unique(Column(employee_data, "City"))
          /\ selected_country' \in SUBSET unique(Column(employee_data, "Country"))
          /\ selected_salary_range' \in SliderRanges(Column(salary_data, "Salary"))
          /\ selected_age_range' \in SliderRanges(Column(employee_data, "Age"))
          /\ selected_tenure_range' \in SliderRanges(Column(employee_data, "Tenure"))
          /\ pc' = "filter"
          /\ error' = error
    /\ UNCHANGED <<conn, db, notices, frames, filtered_data, aggregates>>

-----------------------------------------------------------------------------
(* Lines 76-84: the filter *)

(* Series.isin(values): a boolean mask *)
isin_EmptyMeansAll(col, values) ==
    [i \in 1..Len(col) |-> values = {} \/ col[i] \in values]

isin(col, values) == [i \in 1..Len(col) |-> col[i] \in values]

(* Series.between(left, right): left <= x <= right, False for NaN *)
between_Exclusive(col, left, right) ==
    [i \in 1..Len(col) |->
        /\ IsNum(col[i]) /\ IsNum(left) /\ IsNum(right)
        /\ left.v < col[i].v /\ col[i].v < right.v]

between(col, left, right) ==
    [i \in 1..Len(col) |->
        /\ IsNum(col[i]) /\ IsNum(left) /\ IsNum(right)
        /\ left.v <= col[i].v /\ col[i].v <= right.v]

(* comparing text with a number raises TypeError *)
betweenRaises(col) == \E c \in Range(col) : IsText(c)

(* mask & mask *)
And(a, b) == [i \in 1..Len(a) |-> a[i] /\ b[i]]

(* frame[mask]: the rows whose mask entry is True, in order *)
RECURSIVE BoolIndex(_, _)
BoolIndex(rows, mask) ==
    IF rows = <<>> THEN <<>>
    ELSE IF Head(mask) THEN <<Head(rows)>> \o BoolIndex(Tail(rows), Tail(mask))
    ELSE BoolIndex(Tail(rows), Tail(mask))

FilterMask(m) ==
    And(And(And(And(And(isin(Column(m, "Gender"), selected_gender),
                        isin(Column(m, "City"), selected_city)),
                    isin(Column(m, "Country"), selected_country)),
                between(Column(m, "Salary"), selected_salary_range[1],
                        selected_salary_range[2])),
            between(Column(m, "Age"), selected_age_range[1], selected_age_range[2])),
        between(Column(m, "Tenure"), selected_tenure_range[1],
                selected_tenure_range[2]))

FilterRaises(m) ==
    \/ ~m.cols
    \/ betweenRaises(Column(m, "Salary"))
    \/ betweenRaises(Column(m, "Age"))
    \/ betweenRaises(Column(m, "Tenure"))

ApplyFilters ==
    /\ pc = "filter"
    /\ IF FilterRaises(merged_data)
       THEN /\ Raise("filter")
            /\ UNCHANGED filtered_data
       ELSE /\ filtered_data' = Frame(BoolIndex(merged_data.rows, FilterMask(merged_data)))
            /\ pc' = "metrics"
            /\ error' = error
    /\ UNCHANGED <<conn, db, notices, frames, selections, aggregates>>

-----------------------------------------------------------------------------
(* Lines 86-91: the key metrics *)

(* Series.mean() of a column holding text raises TypeError *)
MeanRaises(col) == \E c \in Range(col) : IsText(c)

KeyMetrics ==
    /\ pc = "metrics"
    /\ IF MeanRaises(Column(filtered_data, "Performance_Score"))
       THEN /\ Raise("metrics")
            /\ UNCHANGED total_employees
       ELSE /\ total_employees' = Len(filtered_data.rows)
            /\ pc' = "normalize"
            /\ error' = error
    /\ UNCHANGED <<conn, db, notices, frames, selections, filtered_data,
                   avg_salary_dept, top_paid, avg_salary_dept_tenure,
                   avg_perf_age_group, displayed>>

-----------------------------------------------------------------------------
(* Lines 104-111: numeric coercion of four columns, then dropna *)

(* pd.to_numeric(errors='coerce') *)
to_numeric(c) == IF IsNum(c) THEN c ELSE NaN

NumericColumns == {"Salary", "Performance_Score", "Tenure", "Working_Hours"}

Coerce(rows) ==
    [i \in 1..Len(rows) |->
        [c \in DOMAIN rows[i] |->
            IF c \in NumericColumns THEN to_numeric(rows[i][c]) ELSE rows[i][c]]]

dropna(rows, subset) ==
    SelectSeq(rows, LAMBDA r : \A c \in subset : r[c].t # "nan")

NormalizeNumeric ==
    /\ pc = "normalize"
    /\ filtered_data' = Frame(dropna(Coerce(filtered_data.rows), NumericColumns))
    /\ pc' = "avg_salary_dept"
    /\ UNCHANGED <<conn, db, notices, error, frames, selections, aggregates>>

-----------------------------------------------------------------------------
(* Grouped means.  A mean is kept as the reduced fraction num/den; the mean *)
(* of no value is NaN.                                                      *)

RECURSIVE GCD(_, _)
GCD(a, b) == IF b = 0 THEN a ELSE GCD(b, a % b)

RECURSIVE SumCells(_)
SumCells(cells) ==
    IF cells = <<>> THEN 0 ELSE Head(cells).v + SumCells(Tail(cells))

NaNMean == [nan |-> TRUE, num |-> 0, den |-> 1]

(* Series.mean(): NaN cells are skipped *)
Mean(col) ==
    LET nums == SelectSeq(col, IsNum)
        s == SumCells(nums)
        g == GCD(s, Len(nums))
    IN IF nums = <<>> THEN NaNMean
       ELSE [nan |-> FALSE, num |-> s \div g, den |-> Len(nums) \div g]

(* frame.groupby(keys)[value].mean().reset_index() on plain columns: one *)
(* entry per key combination that occurs *)
GroupedMean(rows, keys, value) ==
    LET KeyOf(r) == [k \in keys |-> r[k]]
        present == {KeyOf(rows[i]) : i \in 1..Len(rows)}
        members(key) == SelectSeq(rows, LAMBDA r : KeyOf(r) = key)
    IN {key @@ (value :> Mean([i \in 1..Len(members(key)) |-> members(key)[i][value]]))
        : key \in present}

(* Line 130 *)
AvgSalaryDept ==
    /\ pc = "avg_salary_dept"
    /\ avg_salary_dept' = GroupedMean(filtered_data.rows, {"Department_Name"}, "Salary")
    /\ pc' = "fetch_empl_dept"
    /\ UNCHANGED <<conn, db, notices, error, frames, selections, filtered_data,
                   total_employees, top_paid, avg_salary_dept_tenure,
                   avg_perf_age_group, displayed>>

-----------------------------------------------------------------------------
(* Lines 191-207: the department counts and their pie chart *)

FetchEmplDept ==
    /\ pc = "fetch_empl_dept"
    /\ empl_dept_data' = fetch_data("empl_dept_query", db)
    /\ notices' = notices \cup fetch_notice("empl_dept_query", db)
    /\ pc' = "pie"
    /\ UNCHANGED <<conn, db, error, employee_data, salary_data, performance_data,
                   department_data, merged_data, selections, filtered_data,
                   aggregates>>

(* line 204 evaluates empl_dept_data['Employee_Count'] (KeyError on a frame *)
(* without columns) and sns.color_palette (NameError: the script binds no  *)
(* name sns) before ax.pie is called: the statement raises on every run    *)
PieChart ==
    /\ pc = "pie"
    /\ Raise("pie")
    /\ UNCHANGED <<conn, db, notices, frames, selections, filtered_data, aggregates>>

Next ==
    \/ FetchEmployee
    \/ FetchSalary
    \/ FetchPerformance
    \/ FetchDepartment
    \/ FetchMerged
    \/ SidebarFilters
    \/ ApplyFilters
    \/ KeyMetrics
    \/ NormalizeNumeric
    \/ AvgSalaryDept
    \/ FetchEmplDept
    \/ PieChart

Spec == Init /\ [][Next]_vars

-----------------------------------------------------------------------------
(* Lines 209-297: the aggregates after the pie chart, as functions of the   *)
(* row set filtered_data holds there (numeric Salary, Performance_Score,    *)
(* Tenure, Working_Hours and Age: dropna and the filter let no other row    *)
(* through).                                                                *)

TopN == 10

TopPaidColumns == {"Name", "Salary", "City", "Performance_Score", "Department_Name"}

(* insert row r into rows, sorted by column c descending, after its equals *)
RECURSIVE InsertDesc(_, _, _)
InsertDesc(r, rows, c) ==
    IF rows = <<>> THEN <<r>>
    ELSE IF Head(rows)[c].v >= r[c].v
         THEN <<Head(rows)>> \o InsertDesc(r, Tail(rows), c)
         ELSE <<r>> \o rows

(* rows sorted by column c descending, equal rows in their original order *)
RECURSIVE SortDesc(_, _)
SortDesc(rows, c) ==
    IF rows = <<>> THEN <<>>
    ELSE InsertDesc(rows[Len(rows)], SortDesc(SubSeq(rows, 1, Len(rows) - 1), c), c)

(* a variant that returns the rows in their original order, not by value *)
nlargest_Unsorted(n, rows, c) ==
    SubSeq(rows, 1, IF Len(rows) < n THEN Len(rows) ELSE n)

(* DataFrame.nlargest(n, c), keep='first': the first n rows in descending *)
(* order of c, the first occurrences winning among equal values           *)
nlargest(n, rows, c) ==
    LET sorted == SortDesc(SelectSeq(rows, LAMBDA r : IsNum(r[c])), c)
    IN SubSeq(sorted, 1, IF Len(sorted) < n THEN Len(sorted) ELSE n)

(* Lines 210-213 *)
TopPaid ==
    /\ pc = "top_paid"
    /\ top_paid' = Project(nlargest(TopN, filtered_data.rows, "Salary"), TopPaidColumns)
    /\ pc' = "avg_salary_dept_tenure"
    /\ UNCHANGED <<conn, db, notices, error, frames, selections, filtered_data,
                   total_employees, avg_salary_dept, avg_salary_dept_tenure,
                   avg_perf_age_group, displayed>>

(* Line 218 *)
AvgSalaryDeptTenure ==
    /\ pc = "avg_salary_dept_tenure"
    /\ avg_salary_dept_tenure' =
           GroupedMean(filtered_data.rows, {"Department_Name", "Tenure"}, "Salary")
    /\ pc' = "age_group"
    /\ UNCHANGED <<conn, db, notices, error, frames, selections, filtered_data,
                   total_employees, avg_salary_dept, top_paid,
                   avg_perf_age_group, displayed>>

AgeBins == <<20, 30, 40, 50, 60, 70>>
AgeLabels == <<"20-30", "30-40", "40-50", "50-60", "60-70">>

(* the category of a value no bin holds *)
NoGroup == "NaN"

(* pd.cut(x, bins, labels) with its defaults right=True, include_lowest=False: *)
(* bin i is (bins[i], bins[i+1]]                                               *)
cut(x, bins, labels) ==
    IF IsNum(x) /\ \E i \in 1..Len(labels) : bins[i] < x.v /\ x.v <= bins[i + 1]
    THEN labels[CHOOSE i \in 1..Len(labels) : bins[i] < x.v /\ x.v <= bins[i + 1]]
    ELSE NoGroup

(* Lines 231-232 *)
AgeGroup ==
    /\ pc = "age_group"
    /\ filtered_data' =
           Frame([i \in 1..Len(filtered_data.rows) |->
                    filtered_data.rows[i] @@
                    ("Age_Group" :> cut(filtered_data.rows[i].Age, AgeBins, AgeLabels))])
    /\ pc' = "avg_perf_age_group"
    /\ UNCHANGED <<conn, db, notices, error, frames, selections, aggregates>>

(* groupby(key, observed=False) on a categorical column: one entry per *)
(* category, observed or not; rows without a category are in no group  *)
CategoricalGroupedMean(rows, key, categories, value) ==
    LET members(cat) == SelectSeq(rows, LAMBDA r : r[key] = cat)
    IN {(key :> cat) @@
        (value :> Mean([i \in 1..Len(members(cat)) |-> members(cat)[i][value]]))
        : cat \in categories}

(* Lines 234-236 *)
AvgPerfAgeGroup ==
    /\ pc = "avg_perf_age_group"
    /\ avg_perf_age_group' =
           CategoricalGroupedMean(filtered_data.rows, "Age_Group", Range(AgeLabels),
                                  "Performance_Score")
    /\ pc' = "display"
    /\ UNCHANGED <<conn, db, notices, error, frames, selections, filtered_data,
                   total_employees, avg_salary_dept, top_paid,
                   avg_salary_dept_tenure, displayed>>

(* Lines 292-294 *)
DisplayFiltered ==
    /\ pc = "display"
    /\ displayed' = filtered_data
    /\ pc' = "close"
    /\ UNCHANGED <<conn, db, notices, error, frames, selections, filtered_data,
                   total_employees, avg_salary_dept, top_paid,
                   avg_salary_dept_tenure, avg_perf_age_group>>

(* Lines 296-297 *)
CloseConnection ==
    /\ pc = "close"
    /\ conn' = "closed"
    /\ pc' = "done"
    /\ UNCHANGED <<db, notices, error, frames, selections, filtered_data, aggregates>>

NextAgg ==
    \/ TopPaid
    \/ AvgSalaryDeptTenure
    \/ AgeGroup
    \/ AvgPerfAgeGroup
    \/ DisplayFiltered
    \/ CloseConnection

(* Row sets for the aggregates *)

AggRow(i, dept, tenure, age, salary, score) ==
    [Employee_ID |-> i, Name |-> i, Gender |-> "F", City |-> "A", Country |-> "X",
     Age |-> Num(age), Tenure |-> Num(tenure), Salary |-> Num(salary),
     Performance_Score |-> Num(score), Working_Hours |-> Num(8),
     Department_Name |-> dept]

SeqsUpTo(n, S) == UNION {[1..k -> S] : k \in 0..n}

(* rows that differ in department, tenure and salary *)
GroupRowSets ==
    {[i \in DOMAIN ch |-> AggRow(i, ch[i][1], ch[i][2], 35, ch[i][3], 3)]
     : ch \in SeqsUpTo(MaxGroupRows, {"D1", "D2"} \X {1, 2} \X {1, 2})}

(* rows that differ in age, on and around the bin boundaries, and in score *)
BinAges == {19, 20, 21, 30, 31, 60, 70, 71}

BinRowSets ==
    {[i \in DOMAIN ch |-> AggRow(i, "D1", 1, ch[i][1], 1, ch[i][2])]
     : ch \in SeqsUpTo(MaxBinRows, BinAges \X {3, 4})}

(* longer row sets, more rows than the Top-10 keeps, that differ in salary *)
TopRowSets ==
    {[i \in DOMAIN ch |-> AggRow(i, "D1", 1, 35, ch[i], 3)]
     : ch \in SeqsUpTo(MaxTopRows, {1, 2})}

AggRowSets == GroupRowSets \cup BinRowSets \cup TopRowSets

InitAgg ==
    \E rows \in AggRowSets :
        /\ pc = "top_paid"
        /\ conn = "open"
        /\ db = MakeDB(<<>>, <<>>, {})
        /\ notices = {}
        /\ error = "none"
        /\ employee_data = EmptyFrame
        /\ salary_data = EmptyFrame
        /\ performance_data = EmptyFrame
        /\ department_data = EmptyFrame
        /\ merged_data = Frame(rows)
        /\ empl_dept_data = EmptyFrame
        /\ selected_gender = {}
        /\ selected_city = {}
        /\ selected_country = {}
        /\ selected_salary_range = NoRange
        /\ selected_age_range = NoRange
        /\ selected_tenure_range = NoRange
        /\ filtered_data = Frame(rows)
        /\ total_employees = Len(rows)
        /\ avg_salary_dept = GroupedMean(rows, {"Department_Name"}, "Salary")
        /\ top_paid = <<>>
        /\ avg_salary_dept_tenure = {}
        /\ avg_perf_age_group = {}
        /\ displayed = EmptyFrame

SpecAgg == InitAgg /\ [][NextAgg]_vars

-----------------------------------------------------------------------------
(* Properties *)

InRange(c, rg) ==
    /\ IsNum(c) /\ IsNum(rg[1]) /\ IsNum(rg[2])
    /\ rg[1].v <= c.v /\ c.v <= rg[2].v

MembershipHolds(r) ==
    /\ r.Gender \in selected_gender
    /\ r.City \in selected_city
    /\ r.Country \in selected_country

RangesHold(r) ==
    /\ InRange(r.Salary, selected_salary_range)
    /\ InRange(r.Age, selected_age_range)
    /\ InRange(r.Tenure, selected_tenure_range)

FilterDone == pc \in {"metrics", "normalize"}

(* C1: once the filter has run, the filtered row set holds exactly the    *)
(* joined rows for which all six predicates hold: Gender, City and Country *)
(* in their selected sets and Salary, Age and Tenure inside their closed   *)
(* intervals, the bounds included.                                         *)
C1_FilterIsConjunction ==
    FilterDone =>
        /\ \A r \in Range(merged_data.rows) :
              r \in Range(filtered_data.rows) <=> (MembershipHolds(r) /\ RangesHold(r))
        /\ Range(filtered_data.rows) \subseteq Range(merged_data.rows)

(* a row on the bounds of all three intervals is kept, another is left out *)
C1_Witness ==
    /\ pc = "metrics"
    /\ \E r \in Range(filtered_data.rows) :
          /\ r.Salary = selected_salary_range[2]
          /\ r.Age = selected_age_range[1]
          /\ r.Tenure = selected_tenure_range[1]
    /\ \E r \in Range(merged_data.rows) :
          /\ r \notin Range(filtered_data.rows)
          /\ MembershipHolds(r)
          /\ InRange(r.Salary, selected_salary_range)
          /\ InRange(r.Age, selected_age_range)

(* C2: an empty selection of genders, cities or countries leaves no row in *)
(* the filtered row set, whatever the other selections are.                *)
C2_EmptySelectionYieldsNoRows ==
    (FilterDone /\ (selected_gender = {} \/ selected_city = {} \/ selected_country = {}))
        => filtered_data.rows = <<>>

(* no country is selected and a joined row satisfies the other five predicates *)
C2_Witness ==
    /\ pc = "metrics"
    /\ selected_country = {}
    /\ filtered_data.rows = <<>>
    /\ \E r \in Range(merged_data.rows) :
          /\ r.Gender \in selected_gender
          /\ r.City \in selected_city
          /\ RangesHold(r)

(* C3: every joined row belongs to an employee that has an Employee row    *)
(* with a Location row, a Salary row, a Performance row and an             *)
(* Employee_Department row with a Department row, and carries their cells; *)
(* an employee that lacks one of them has no joined row.                   *)
C3_InnerJoinClosure ==
    \A r \in Range(merged_data.rows) :
        /\ \E e \in Range(db.Employee) :
              /\ e.Employee_ID = r.Employee_ID
              /\ e.Gender = r.Gender /\ e.Age = r.Age /\ e.Tenure = r.Tenure
              /\ \E l \in Range(db.Location) :
                    /\ l.Location_ID = e.Location_ID
                    /\ l.City = r.City /\ l.Country = r.Country
        /\ \E x \in Range(db.Salary) :
              x.Employee_ID = r.Employee_ID /\ x.Salary = r.Salary
        /\ \E p \in Range(db.Performance) :
              /\ p.Employee_ID = r.Employee_ID
              /\ p.Performance_Score = r.Performance_Score
              /\ p.Working_Hours = r.Working_Hours
        /\ \E ed \in Range(db.Employee_Department) :
              /\ ed.Employee_ID = r.Employee_ID
              /\ \E dp \in Range(db.Department) :
                    /\ dp.Department_ID = ed.Department_ID
                    /\ dp.Department_Name = r.Department_Name

(* the join has run, one employee is joined and one, without a Performance *)
(* row, is not                                                             *)
C3_Witness ==
    /\ pc = "sidebar"
    /\ Len(db.Employee) = 2
    /\ Len(db.Performance) = 1
    /\ Len(merged_data.rows) = 1

(* C4: no run in which a query failed aborts. *)
C4_QueryFailureNeverAborts ==
    pc = "failed" => notices = {}

(* C5: a run that has ended, normally or by raising, has closed the *)
(* connection.                                                      *)
C5_ConnectionClosedAtEnd ==
    pc \in {"done", "failed"} => conn = "closed"

(* the rows the filter of lines 76-84 lets through *)
FilterOutput == BoolIndex(merged_data.rows, FilterMask(merged_data))

(* C9: a filtered row with a missing Working_Hours, Tenure or              *)
(* Performance_Score and a valid Salary still counts in the average Salary *)
(* by department, and the row set in use after the coercion has as many    *)
(* rows as Total Employees shows.                                          *)
C9_ExclusionIsScoped ==
    (pc \in {"fetch_empl_dept", "pie"} \/ error = "pie") =>
        /\ avg_salary_dept =
               GroupedMean(SelectSeq(Coerce(FilterOutput), LAMBDA r : IsNum(r.Salary)),
                           {"Department_Name"}, "Salary")
        /\ total_employees = Len(filtered_data.rows)

HasTextCell(rows) ==
    \E r \in Range(rows) : IsText(r.Salary) \/ IsText(r.Age) \/ IsText(r.Tenure)

(* C10: a joined row with text in its Salary, Age or Tenure cell does not *)
(* make the run fail before or in the filter: the filter completes and    *)
(* leaves the row out.                                                    *)
C10_TextCellNeverFailsFilter ==
    (merged_data.cols /\ HasTextCell(merged_data.rows)) =>
        /\ error \notin {"sidebar", "filter"}
        /\ FilterDone =>
              \A r \in Range(filtered_data.rows) :
                  IsNum(r.Salary) /\ IsNum(r.Age) /\ IsNum(r.Tenure)

(* C6: every entry of the three grouped means stands for a partition that *)
(* holds a filtered row, and its mean is a number.                        *)
C6_NoEmptyPartition ==
    pc \in {"display", "close", "done"} =>
        /\ \A e \in avg_salary_dept :
              /\ ~e.Salary.nan
              /\ \E r \in Range(filtered_data.rows) :
                    r.Department_Name = e.Department_Name
        /\ \A e \in avg_salary_dept_tenure :
              /\ ~e.Salary.nan
              /\ \E r \in Range(filtered_data.rows) :
                    r.Department_Name = e.Department_Name /\ r.Tenure = e.Tenure
        /\ \A e \in avg_perf_age_group :
              /\ ~e.Performance_Score.nan
              /\ \E r \in Range(filtered_data.rows) : r.Age_Group = e.Age_Group

(* the bin the claim gives an age: [20,30), [30,40), [40,50), [50,60), [60,70] *)
ClaimedAgeGroup(a) ==
    IF 20 <= a /\ a < 30 THEN "20-30"
    ELSE IF 30 <= a /\ a < 40 THEN "30-40"
    ELSE IF 40 <= a /\ a < 50 THEN "40-50"
    ELSE IF 50 <= a /\ a < 60 THEN "50-60"
    ELSE IF 60 <= a /\ a <= 70 THEN "60-70"
    ELSE NoGroup

(* C7: every row's Age_Group is the label of the range that holds its Age, *)
(* the ranges being [low, high) but for the last, [60, 70].                *)
C7_HalfOpenBinsLastClosed ==
    pc \in {"avg_perf_age_group", "display", "close", "done"} =>
        \A r \in Range(filtered_data.rows) : r.Age_Group = ClaimedAgeGroup(r.Age.v)

TopPaidDone == pc \notin {"top_paid"}

Min(a, b) == IF a < b THEN a ELSE b

(* C8: the Top-10 holds min(10, rows) rows of the five columns, each the   *)
(* projection of a filtered row, in descending order of Salary with equal  *)
(* salaries in their original order (Name numbers the rows in that order), *)
(* and no filtered row left out has a larger Salary than a row returned.   *)
C8_TopTenBySalary ==
    TopPaidDone =>
        /\ Len(top_paid) = Min(TopN, Len(filtered_data.rows))
        /\ \A i \in 1..Len(top_paid) :
              /\ DOMAIN top_paid[i] = TopPaidColumns
              /\ \E r \in Range(filtered_data.rows) :
                    \A c \in TopPaidColumns : r[c] = top_paid[i][c]
        /\ \A i \in 1..Len(top_paid) : \A j \in 1..Len(top_paid) :
              i < j =>
                 /\ top_paid[i].Salary.v >= top_paid[j].Salary.v
                 /\ top_paid[i].Salary.v = top_paid[j].Salary.v
                       => top_paid[i].Name < top_paid[j].Name
        /\ \A r \in Range(filtered_data.rows) :
              (\A i \in 1..Len(top_paid) : top_paid[i].Name # r.Name)
                 => \A i \in 1..Len(top_paid) : top_paid[i].Salary.v >= r.Salary.v

(* eleven rows, the last with the larger salary: it is returned first and *)
(* a row of the smaller salary is left out                                *)
C8_Witness ==
    /\ pc = "avg_salary_dept_tenure"
    /\ Len(filtered_data.rows) = TopN + 1
    /\ Len(top_paid) = TopN
    /\ top_paid[1].Name = TopN + 1
    /\ top_paid[2].Salary.v < top_paid[1].Salary.v

=============================================================================
